---- MODULE Spec2Model ----
(***************************************************************************)
(* The monitoring client of src/main.py: the start/stop handlers, the      *)
(* polling task update_video_feed, the self-destruct run and the alert     *)
(* list, as they run on one asyncio event loop.                            *)
(*                                                                         *)
(* One action is the code a coroutine runs between two suspension points.  *)
(* A coroutine suspends only at `await asyncio.to_thread(...)`, at         *)
(* `await asyncio.sleep(...)` and at `await video_update_task` on a task   *)
(* that is not done; `await add_alert(...)` never suspends (add_alert has  *)
(* no await of its own) and page.update() is a plain call.                 *)
(*                                                                         *)
(* The handlers are invoked by UI events whenever the environment sends    *)
(* one: the handlers test is_running themselves (lines 102, 143, 174), and *)
(* perform_self_destruct calls stop_monitoring(None) directly.             *)
(*                                                                         *)
(* A call handed to asyncio.to_thread runs in a worker thread of the       *)
(* default executor, which is taken to have a free thread; cancelling the  *)
(* awaiting task does not stop the call.                                   *)
(*                                                                         *)
(* The Flet calls (page.update, control construction) are taken to return  *)
(* normally, and the views of route_change are not part of the model.      *)
(***************************************************************************)
EXTENDS Integers, Sequences, FiniteSets, TLC

\* ---- bounds of the model ----
MaxStarts == 2          \* start_monitoring invocations
MaxStops == 1           \* stop_monitoring invocations by the UI
MaxFetchFailures == 1   \* frame fetches that do not publish a frame
MaxFrames == 3          \* frames published when the polling loop is checked on its own
MaxStartsPoll == 1      \* start_monitoring invocations then
MaxStopsPoll == 1       \* stop_monitoring invocations then
MaxRuns == 1            \* perform_self_destruct invocations
MaxStartsSD == 1        \* start_monitoring invocations beside a self-destruct run
MaxStopsSD == 1         \* stop_monitoring invocations by the UI beside a run
MaxAppends == 203       \* add_alert calls when the alert list is checked on its own
MaxStartsUrl == 1       \* start_monitoring invocations while the URL field is edited
MaxStopsUrl == 1        \* stop_monitoring invocations by the UI then

\* ---- program constants ----
AlertCap == 200

None == 0

VARIABLES
    is_running,         \* main.py:36
    video_update_task,  \* main.py:37, None or the id of a polling task
    tasks,              \* the polling tasks created by asyncio.create_task (line 120)
    starts_in_flight,   \* start_monitoring coroutines suspended at line 108
    stops,              \* stop_monitoring coroutines suspended at line 150
    stop_requests,      \* send_stop_request tasks (lines 164-172)
    runs,               \* perform_self_destruct coroutines
    alerts,             \* alerts_list (line 56) and the count of add_alert calls
    start_disabled,     \* start_button.disabled
    stop_disabled,      \* stop_button.disabled
    status_label,       \* status_label.value
    src_base64,         \* video_image.src_base64
    sd_ui,              \* the self-destruct page's controls
    n_start,            \* start_monitoring invocations so far
    n_stop,             \* stop_monitoring invocations by the UI so far
    n_fetch_failed,     \* frame fetches that did not publish a frame so far
    fetched,            \* the frame fetches that failed so far, by outcome
    n_frames,           \* the frames published so far, where a specification counts them
    abandoned_fetches,  \* GET /camera calls still in a worker thread, their task cancelled
    escaped,            \* the coroutines that an uncaught exception has ended
    api_url_input,      \* api_url_input.value (line 50), a sequence of characters
    requested_url       \* the URL of the remote call issued last, <<>> before the first

vars == <<is_running, video_update_task, tasks, starts_in_flight, stops,
          stop_requests, runs, alerts, start_disabled, stop_disabled,
          status_label, src_base64, sd_ui, n_start, n_stop, n_fetch_failed,
                   fetched, n_frames, abandoned_fetches, escaped,
          api_url_input, requested_url>>

TaskIds == 1..MaxStarts
RunIds == 1..MaxRuns

\* ------------------------------------------------------------------------
\* The alert list (add_alert, lines 191-199)
\* ------------------------------------------------------------------------

\* The value of `alerts`: controls is alerts_list.controls, appended counts the
\* add_alert calls so far. Each entry is a new ft.Text object; seq is its
\* place in the order of creation.
NoAlerts == [controls |-> <<>>, appended |-> 0]

add_alert_popNewest(a, message) ==
    LET appended == Append(a.controls, [seq |-> a.appended + 1, msg |-> message])
    IN  [controls |-> IF Len(appended) > AlertCap
                      THEN SubSeq(appended, 1, Len(appended) - 1)
                      ELSE appended,
         appended |-> a.appended + 1]

add_alert(a, message) ==
    LET appended == Append(a.controls, [seq |-> a.appended + 1, msg |-> message])
    IN  [controls |-> IF Len(appended) > AlertCap THEN Tail(appended) ELSE appended,
         appended |-> a.appended + 1]

LastMsg(a) == IF a.controls = <<>> THEN "" ELSE a.controls[Len(a.controls)].msg

CountMsg(a, m) == Cardinality({i \in 1..Len(a.controls) : a.controls[i].msg = m})

\* ------------------------------------------------------------------------
\* The base URL of the backend (lines 16, 50-67)
\* ------------------------------------------------------------------------

\* A string is a sequence of characters.
DEFAULT_REST_API_URL ==
    <<"h", "t", "t", "p", ":", "/", "/", "l", "o", "c", "a", "l", "h", "o", "s",
      "t", ":", "5", "0", "0", "0">>

\* Characters that str.strip() removes.
Whitespace == {" ", "\t"}

RECURSIVE lstrip(_, _)
lstrip(s, chars) ==
    IF s # <<>> /\ Head(s) \in chars THEN lstrip(Tail(s), chars) ELSE s

RECURSIVE rstrip(_, _)
rstrip(s, chars) ==
    IF s # <<>> /\ s[Len(s)] \in chars
    THEN rstrip(SubSeq(s, 1, Len(s) - 1), chars)
    ELSE s

strip(s) == rstrip(lstrip(s, Whitespace), Whitespace)

\* url.startswith(("http://", "https://")) (line 64).
HasScheme(url) ==
    \/ Len(url) >= 7 /\ SubSeq(url, 1, 7) = <<"h", "t", "t", "p", ":", "/", "/">>
    \/ Len(url) >= 8 /\ SubSeq(url, 1, 8) = <<"h", "t", "t", "p", "s", ":", "/", "/">>

\* Variant: the module-level endpoint constants (lines 17-26) are used.
get_base_url_moduleConstant == DEFAULT_REST_API_URL

\* get_base_url (lines 59-67), on the value the field has now. A value
\* without a scheme only prints a warning (lines 64-66).
get_base_url ==
    LET url == strip(api_url_input)
    IN  IF url = <<>> THEN DEFAULT_REST_API_URL
        ELSE IF ~HasScheme(url) THEN rstrip(url, {"/"})
        ELSE rstrip(url, {"/"})

\* f"{base_url}{path}" with base_url = get_base_url(), handed to requests in
\* the same step (lines 74-76, 106-110, 166-168, 222-231, 260-266, 296-301).
Requests(path) ==
    /\ requested_url' = Append(get_base_url, path)
    /\ UNCHANGED api_url_input

\* A step that issues no remote call.
NoRequest == UNCHANGED <<api_url_input, requested_url>>

\* The values typed into the field.
FieldValues ==
    { <<>>,
      <<" ", "\t">>,
      <<"/">>,
      <<" ", "c", "a", "m", "/", "/", "\t">>,
      <<"h", "t", "t", "p", ":", "/", "/", "c", "a", "m", "/">> }

\* The user edits the REST API URL field; Flet stores the text in
\* api_url_input.value.
UrlEdited(v) ==
    /\ v # api_url_input
    /\ api_url_input' = v
    /\ UNCHANGED <<is_running, video_update_task, tasks, starts_in_flight, stops,
                   stop_requests, runs, alerts, start_disabled, stop_disabled,
                   status_label, src_base64, sd_ui, n_start, n_stop, n_fetch_failed,
                   fetched, n_frames, abandoned_fetches, escaped, requested_url>>

\* ------------------------------------------------------------------------
\* Polling tasks (update_video_feed, lines 69-98)
\* ------------------------------------------------------------------------

LivePcs == {"new", "fetch", "cooldown", "sleep"}

Live(t) == tasks[t].pc \in LivePcs

LiveTasks == {t \in TaskIds : Live(t)}

NoTask == [pc |-> "none", must_cancel |-> FALSE]

FetchOutcomes == {"frame", "noframe", "timeout", "reqerror", "malformed"}

\* `while is_running:` (line 72), then the fetch is handed to a worker thread.
LoopTop == IF is_running THEN "fetch" ELSE "done"

\* The task's first step: the coroutine runs to its first await.
TaskBegins(t) ==
    /\ tasks[t].pc = "new"
    /\ ~tasks[t].must_cancel
    /\ tasks' = [tasks EXCEPT ![t].pc = LoopTop]
    /\ UNCHANGED <<is_running, video_update_task, starts_in_flight, stops,
                   stop_requests, runs, alerts, start_disabled, stop_disabled,
                   status_label, src_base64, sd_ui, n_start, n_stop, n_fetch_failed,
                   fetched, n_frames, abandoned_fetches, escaped>>
    /\ IF LoopTop = "fetch" THEN Requests("/camera") ELSE NoRequest

\* asyncio.to_thread returns or raises (lines 76-95). The count n_frames is
\* left to the specification.
FetchReturns(t, outcome) ==
    /\ tasks[t].pc = "fetch"
    /\ ~tasks[t].must_cancel
    /\ outcome # "frame" => n_fetch_failed < MaxFetchFailures
    /\ n_fetch_failed' = IF outcome = "frame" THEN n_fetch_failed ELSE n_fetch_failed + 1
    /\ fetched' = IF outcome = "frame" THEN fetched
                  ELSE [fetched EXCEPT ![outcome] = @ + 1]
    /\ escaped' = IF outcome = "malformed"
                  THEN escaped \cup {"update_video_feed"}
                  ELSE escaped
    /\ CASE outcome = "frame" ->
              /\ src_base64' = "frame"
              /\ tasks' = [tasks EXCEPT ![t].pc = "sleep"]
              /\ UNCHANGED alerts
         [] outcome = "noframe" ->
              /\ alerts' = add_alert(alerts, "Frame retrieval failed")
              /\ tasks' = [tasks EXCEPT ![t].pc = "sleep"]
              /\ UNCHANGED src_base64
         [] outcome = "timeout" ->
              /\ alerts' = IF is_running
                           THEN add_alert(alerts, "Video feed request timed out.")
                           ELSE alerts
              /\ tasks' = [tasks EXCEPT ![t].pc = "cooldown"]
              /\ UNCHANGED src_base64
         [] outcome = "reqerror" ->
              /\ alerts' = IF is_running
                           THEN add_alert(alerts, "Error updating video feed")
                           ELSE alerts
              /\ tasks' = [tasks EXCEPT ![t].pc = "cooldown"]
              /\ UNCHANGED src_base64
         [] outcome = "malformed" ->
              \* no except clause matches: the exception ends the task
              /\ tasks' = [tasks EXCEPT ![t].pc = "failed"]
              /\ UNCHANGED <<alerts, src_base64>>
    /\ UNCHANGED <<is_running, video_update_task, starts_in_flight, stops,
                   stop_requests, runs, start_disabled, stop_disabled,
                   status_label, sd_ui, n_start, n_stop, abandoned_fetches>>
    /\ NoRequest

\* asyncio.sleep(2) of an except clause ends (lines 91, 95).
CooldownEnds(t) ==
    /\ tasks[t].pc = "cooldown"
    /\ ~tasks[t].must_cancel
    /\ tasks' = [tasks EXCEPT ![t].pc = "sleep"]
    /\ UNCHANGED <<is_running, video_update_task, starts_in_flight, stops,
                   stop_requests, runs, alerts, start_disabled, stop_disabled,
                   status_label, src_base64, sd_ui, n_start, n_stop, n_fetch_failed,
                   fetched, n_frames, abandoned_fetches, escaped>>
    /\ NoRequest

\* asyncio.sleep(0.1) ends (line 98) and the loop condition is tested again.
SleepEnds(t) ==
    /\ tasks[t].pc = "sleep"
    /\ ~tasks[t].must_cancel
    /\ tasks' = [tasks EXCEPT ![t].pc = LoopTop]
    /\ UNCHANGED <<is_running, video_update_task, starts_in_flight, stops,
                   stop_requests, runs, alerts, start_disabled, stop_disabled,
                   status_label, src_base64, sd_ui, n_start, n_stop, n_fetch_failed,
                   fetched, n_frames, abandoned_fetches, escaped>>
    /\ IF LoopTop = "fetch" THEN Requests("/camera") ELSE NoRequest

TaskCancelled_publishesFrame(t) ==
    /\ Live(t)
    /\ tasks[t].must_cancel
    /\ tasks' = [tasks EXCEPT ![t].pc = "cancelled"]
    /\ src_base64' = IF tasks[t].pc = "fetch" THEN "frame" ELSE src_base64
    /\ abandoned_fetches' = IF tasks[t].pc = "fetch"
                            THEN abandoned_fetches + 1
                            ELSE abandoned_fetches
    /\ UNCHANGED <<is_running, video_update_task, starts_in_flight, stops,
                   stop_requests, runs, alerts, start_disabled, stop_disabled,
                   status_label, sd_ui, n_start, n_stop, n_fetch_failed,
                   fetched, n_frames, escaped>>
    /\ NoRequest

\* The task's next step after task.cancel(): CancelledError is thrown at its
\* await (or before its first step) and no except clause of the loop catches
\* it. A GET /camera call that the task was awaiting (line 76) goes on in its
\* worker thread: cancelling the await does not stop requests.get.
TaskCancelled(t) ==
    /\ Live(t)
    /\ tasks[t].must_cancel
    /\ tasks' = [tasks EXCEPT ![t].pc = "cancelled"]
    /\ abandoned_fetches' = IF tasks[t].pc = "fetch"
                            THEN abandoned_fetches + 1
                            ELSE abandoned_fetches
    /\ UNCHANGED <<is_running, video_update_task, starts_in_flight, stops,
                   stop_requests, runs, alerts, start_disabled, stop_disabled,
                   status_label, src_base64, sd_ui, n_start, n_stop, n_fetch_failed,
                   fetched, n_frames, escaped>>
    /\ NoRequest

\* requests.get of a cancelled task returns or raises in its worker thread
\* (line 76, timeout=5): nothing awaits the result any more.
AbandonedFetchReturns ==
    /\ abandoned_fetches > 0
    /\ abandoned_fetches' = abandoned_fetches - 1
    /\ UNCHANGED <<is_running, video_update_task, tasks, starts_in_flight, stops,
                   stop_requests, runs, alerts, start_disabled, stop_disabled,
                   status_label, src_base64, sd_ui, n_start, n_stop, n_fetch_failed,
                   fetched, n_frames, escaped>>
    /\ NoRequest

\* ------------------------------------------------------------------------
\* start_monitoring (lines 100-138)
\* ------------------------------------------------------------------------

StartOutcomes == {"ok", "appfail", "timeout", "reqerror", "unexpected"}

StartFailureMsg(outcome) ==
    CASE outcome = "appfail" -> "Failed to start monitoring"
      [] outcome = "timeout" -> "Error starting monitoring: Request timed out."
      [] outcome = "reqerror" -> "Error starting monitoring"
      [] outcome = "unexpected" -> "Unexpected error starting monitoring"

StartFailureMsgs == {StartFailureMsg(o) : o \in StartOutcomes \ {"ok"}}

StartAllowed_always == TRUE

\* `if not is_running:` (line 102)
StartAllowed == ~is_running

\* The handler up to its await of the remote start call (lines 102-108).
StartMonitoring ==
    /\ n_start < MaxStarts
    /\ n_start' = n_start + 1
    /\ IF StartAllowed
       THEN /\ start_disabled' = TRUE
            /\ alerts' = add_alert(alerts, "Attempting to start monitoring...")
            /\ starts_in_flight' = starts_in_flight + 1
            /\ Requests("/camera")
       ELSE /\ UNCHANGED <<start_disabled, alerts, starts_in_flight>>
            /\ NoRequest
    /\ UNCHANGED <<is_running, video_update_task, tasks, stops, stop_requests,
                   runs, stop_disabled, status_label, src_base64, sd_ui,
                   n_stop, n_fetch_failed,
                   fetched, n_frames, abandoned_fetches, escaped>>

NewTaskId == CHOOSE t \in TaskIds : tasks[t].pc = "none" /\
                 \A u \in TaskIds : u < t => tasks[u].pc # "none"

\* Variant: is_running is set before the success flag of the response is tested.
StartReturns_runningBeforeFlagTest(outcome) ==
    /\ starts_in_flight > 0
    /\ starts_in_flight' = starts_in_flight - 1
    /\ start_disabled' = FALSE
    /\ is_running' = IF outcome \in {"ok", "appfail"} THEN TRUE ELSE is_running
    /\ IF outcome = "ok"
       THEN /\ stop_disabled' = FALSE
            /\ status_label' = "Monitoring Active"
            /\ alerts' = add_alert(alerts, "Camera monitoring started successfully.")
            /\ tasks' = [tasks EXCEPT ![NewTaskId] = [pc |-> "new", must_cancel |-> FALSE]]
            /\ video_update_task' = NewTaskId
       ELSE /\ alerts' = add_alert(alerts, StartFailureMsg(outcome))
            /\ UNCHANGED <<stop_disabled, status_label, tasks, video_update_task>>
    /\ UNCHANGED <<stops, stop_requests, runs, src_base64, sd_ui, n_start,
                   n_stop, n_fetch_failed,
                   fetched, n_frames, abandoned_fetches, escaped>>
    /\ NoRequest

\* The remote start call returns or raises (lines 111-138).
StartReturns(outcome) ==
    /\ starts_in_flight > 0
    /\ starts_in_flight' = starts_in_flight - 1
    /\ start_disabled' = FALSE
    /\ IF outcome = "ok"
       THEN /\ is_running' = TRUE
            /\ stop_disabled' = FALSE
            /\ status_label' = "Monitoring Active"
            /\ alerts' = add_alert(alerts, "Camera monitoring started successfully.")
            /\ tasks' = [tasks EXCEPT ![NewTaskId] = [pc |-> "new", must_cancel |-> FALSE]]
            /\ video_update_task' = NewTaskId
       ELSE /\ alerts' = add_alert(alerts, StartFailureMsg(outcome))
            /\ UNCHANGED <<is_running, stop_disabled, status_label, tasks,
                           video_update_task>>
    /\ UNCHANGED <<stops, stop_requests, runs, src_base64, sd_ui, n_start,
                   n_stop, n_fetch_failed,
                   fetched, n_frames, abandoned_fetches, escaped>>
    /\ NoRequest

\* ------------------------------------------------------------------------
\* stop_monitoring (lines 140-181)
\* ------------------------------------------------------------------------

NoFrame == "none"

StopIsActive_always == TRUE

\* `if is_running:` (line 143)
StopIsActive == is_running

\* What lines 147-152 do with the handle: nothing when it is None, cancel and
\* suspend when the task is not done; on a done task cancel() is a no-op and
\* the await returns at once (the task returned, or it was cancelled and the
\* CancelledError is caught) or raises the exception that ended the task.
StopPath ==
    IF video_update_task = None THEN "sync"
    ELSE IF tasks[video_update_task].pc \in LivePcs THEN "wait"
    ELSE IF tasks[video_update_task].pc = "failed" THEN "raise"
    ELSE "sync"

StopFinish_keepsHandle ==
    /\ video_update_task' = video_update_task
    /\ start_disabled' = FALSE
    /\ stop_disabled' = TRUE
    /\ status_label' = "System Ready"
    /\ src_base64' = NoFrame
    /\ stop_requests' = [stop_requests EXCEPT !.new = @ + 1]

\* Lines 153-172: the handle is cleared, the controls reset and the detached
\* send_stop_request task created; the caller adds the 'stopped' alert.
StopFinish ==
    /\ video_update_task' = None
    /\ start_disabled' = FALSE
    /\ stop_disabled' = TRUE
    /\ status_label' = "System Ready"
    /\ src_base64' = NoFrame
    /\ stop_requests' = [stop_requests EXCEPT !.new = @ + 1]

\* Lines 144-152 (and 153-172 when the await does not suspend), for the UI
\* (caller = 0) or for run `caller` of perform_self_destruct.
StopActiveBranch(caller) ==
    /\ is_running' = FALSE
    /\ escaped' = IF StopPath = "raise" /\ caller = 0
                  THEN escaped \cup {"stop_monitoring"}  \* no try around the handler
                  ELSE escaped                           \* caught at line 333
    /\ CASE StopPath = "wait" ->
              /\ tasks' = [tasks EXCEPT ![video_update_task].must_cancel = TRUE]
              /\ stops' = stops \cup {[awaits |-> video_update_task, caller |-> caller]}
              /\ stop_disabled' = TRUE
              /\ UNCHANGED <<video_update_task, start_disabled, status_label,
                             src_base64, stop_requests>>
         [] StopPath = "raise" ->
              /\ stop_disabled' = TRUE
              /\ UNCHANGED <<tasks, stops, video_update_task, start_disabled,
                             status_label, src_base64, stop_requests>>
         [] StopPath = "sync" ->
              /\ StopFinish
              /\ UNCHANGED <<tasks, stops>>

\* The alerts of StopActiveBranch, appended to `log` (lines 145, 159).
StopActiveLog(log) ==
    LET attempt == add_alert(log, "Attempting to stop monitoring...")
    IN  IF StopPath = "sync"
        THEN add_alert(attempt, "Camera monitoring stopped.")
        ELSE attempt

\* The UI's stop event: the handler up to its first suspension or its end.
StopMonitoring ==
    /\ n_stop < MaxStops
    /\ n_stop' = n_stop + 1
    /\ IF StopIsActive
       THEN /\ StopActiveBranch(0)
            /\ alerts' = StopActiveLog(alerts)
       ELSE \* lines 174-181
            /\ start_disabled' = FALSE
            /\ stop_disabled' = TRUE
            /\ status_label' = "System Ready"
            /\ src_base64' = NoFrame
            /\ alerts' = add_alert(alerts, "Camera monitoring not active. Cannot stop.")
            /\ UNCHANGED <<is_running, video_update_task, tasks, stops, stop_requests,
                           escaped>>
    /\ UNCHANGED <<starts_in_flight, runs, sd_ui, n_start, n_fetch_failed,
                   fetched, n_frames, abandoned_fetches>>
    /\ NoRequest

AwaitReturns_atOnce(t) == TRUE

\* `await video_update_task` (line 150) returns once the task is done.
AwaitReturns(t) == ~Live(t)

\* send_stop_request (lines 164-171): its first step hands the POST to a
\* worker thread; whatever the call does is only printed.
StopRequestBegins ==
    /\ stop_requests.new > 0
    /\ stop_requests' = [new |-> stop_requests.new - 1,
                         in_flight |-> stop_requests.in_flight + 1]
    /\ UNCHANGED <<is_running, video_update_task, tasks, starts_in_flight, stops,
                   runs, alerts, start_disabled, stop_disabled, status_label,
                   src_base64, sd_ui, n_start, n_stop, n_fetch_failed,
                   fetched, n_frames, abandoned_fetches, escaped>>
    /\ Requests("/camera")

StopRequestOutcomes == {"ok", "timeout", "reqerror", "exception"}

StopRequestReturns_alertsFailure(outcome) ==
    /\ stop_requests.in_flight > 0
    /\ stop_requests' = [stop_requests EXCEPT !.in_flight = @ - 1]
    /\ alerts' = IF outcome = "ok" THEN alerts
                 ELSE add_alert(alerts, "Failed to send stop request to API")
    /\ UNCHANGED <<is_running, video_update_task, tasks, starts_in_flight, stops,
                   runs, start_disabled, stop_disabled, status_label,
                   src_base64, sd_ui, n_start, n_stop, n_fetch_failed,
                   fetched, n_frames, abandoned_fetches, escaped>>
    /\ NoRequest

\* The POST returns or raises in send_stop_request (lines 168-171): the
\* response is dropped and an exception is printed, nothing else.
StopRequestReturns(outcome) ==
    /\ outcome \in StopRequestOutcomes
    /\ stop_requests.in_flight > 0
    /\ stop_requests' = [stop_requests EXCEPT !.in_flight = @ - 1]
    /\ UNCHANGED <<is_running, video_update_task, tasks, starts_in_flight, stops,
                   runs, alerts, start_disabled, stop_disabled, status_label,
                   src_base64, sd_ui, n_start, n_stop, n_fetch_failed,
                   fetched, n_frames, abandoned_fetches, escaped>>
    /\ NoRequest

\* ------------------------------------------------------------------------
\* perform_self_destruct (lines 202-353)
\* ------------------------------------------------------------------------

StepOutcomes == {"ok", "appfail", "error"}

IdleRun == [pc |-> "idle", success |-> TRUE, calls |-> <<>>, pending |-> {},
            outcomes |-> <<>>, active_at_invoke |-> FALSE,
            active_at_step4 |-> FALSE, stop_step |-> FALSE]

\* The remote call of each step (lines 223, 261, 297).
StepCall(pc) ==
    CASE pc = "s1" -> "/s3/bucket/delete"
      [] pc = "s2" -> "/db/cleanup?days=0"
      [] pc = "s3" -> "/db/delete-file"

\* The alert that announces a step (lines 219, 257, 293).
StepAnnounce(pc) ==
    CASE pc = "s1" -> "Deleting S3 bucket..."
      [] pc = "s2" -> "Cleaning up database..."
      [] pc = "s3" -> "Deleting database file..."

\* The values of result.get('deleted_count', 0) in a cleanup response.
DeletedCounts == {0, 5}

\* Line 279
CleanedMsg(count) ==
    CASE count = 0 -> "Database cleaned: 0 records deleted."
      [] count = 5 -> "Database cleaned: 5 records deleted."

\* The alert of a step's result (lines 240-250, 276-286, 310-320); count is
\* read only from a successful cleanup response.
StepResultMsg(pc, outcome, count) ==
    CASE pc = "s1" /\ outcome = "ok" -> "S3 bucket deleted."
      [] pc = "s1" /\ outcome = "appfail" -> "Failed to delete S3 bucket"
      [] pc = "s1" /\ outcome = "error" -> "Error during S3 deletion"
      [] pc = "s2" /\ outcome = "ok" -> CleanedMsg(count)
      [] pc = "s2" /\ outcome = "appfail" -> "Failed to clean database"
      [] pc = "s2" /\ outcome = "error" -> "Error during database cleanup"
      [] pc = "s3" /\ outcome = "ok" -> "Database file deleted."
      [] pc = "s3" /\ outcome = "appfail" -> "Failed to delete database file"
      [] pc = "s3" /\ outcome = "error" -> "Error deleting database file"

StepSuccess_lastStepOnly(success, outcome) == outcome = "ok"

StepSuccess_ignoresFlag(success, outcome) == success /\ outcome # "error"

\* `success = False` in the else branch and in the except clause of a step.
StepSuccess(success, outcome) == success /\ outcome = "ok"

NextStep_abortsOnFailure(pc, outcome) ==
    IF outcome # "ok" THEN "step4"
    ELSE CASE pc = "s1" -> "s2" [] pc = "s2" -> "s3" [] pc = "s3" -> "step4"

\* The code falls through from each try statement to the next step.
NextStep(pc, outcome) ==
    CASE pc = "s1" -> "s2" [] pc = "s2" -> "s3" [] pc = "s3" -> "step4"

StopNeeded_whenTaskSet == video_update_task # None

\* `if is_running:` (line 325)
StopNeeded == is_running

SuccessText == "Self-destruct sequence completed successfully."
ErrorsText == "Self-destruct completed with some errors."

\* Lines 341-347
SummaryText(success) == IF success THEN SuccessText ELSE ErrorsText

\* Lines 204-232: the run up to its await of the bucket delete.
SelfDestructInvoke(r) ==
    /\ runs[r].pc = "idle"
    /\ r > 1 => runs[r - 1].pc # "idle"
    /\ sd_ui' = [sd_ui EXCEPT !.status = "Deleting S3 bucket...",
                              !.progress = TRUE,
                              !.confirm_disabled = TRUE,
                              !.cancel_disabled = TRUE]
    /\ alerts' = add_alert(alerts, StepAnnounce("s1"))
    /\ runs' = [runs EXCEPT ![r] =
                  [IdleRun EXCEPT !.pc = "s1",
                                  !.calls = <<StepCall("s1")>>,
                                  !.pending = {StepCall("s1")},
                                  !.active_at_invoke = is_running]]
    /\ UNCHANGED <<is_running, video_update_task, tasks, starts_in_flight, stops,
                   stop_requests, start_disabled, stop_disabled, status_label,
                   src_base64, n_start, n_stop, n_fetch_failed,
                   fetched, n_frames, abandoned_fetches, escaped>>
    /\ Requests(StepCall("s1"))

\* Lines 341-353: the summary, with `run` the run's record so far.
SdFinal(r, run, log) ==
    /\ alerts' = add_alert(log, SummaryText(run.success))
    /\ sd_ui' = [sd_ui EXCEPT !.status = SummaryText(run.success),
                              !.progress = FALSE,
                              !.done_btn = TRUE]
    /\ runs' = [runs EXCEPT ![r] = [run EXCEPT !.pc = "final"]]

SdStep4_noTryAroundStop(r, run, log) ==
    IF StopNeeded
    THEN LET log4 == StopActiveLog(add_alert(log, "Stopping camera monitoring..."))
             run4 == [run EXCEPT !.stop_step = TRUE, !.active_at_step4 = is_running]
         IN  /\ StopActiveBranch(r)
             /\ CASE StopPath \in {"wait", "raise"} ->
                       /\ alerts' = log4
                       /\ sd_ui' = [sd_ui EXCEPT !.status = "Stopping camera monitoring..."]
                       /\ runs' = [runs EXCEPT ![r] = [run4 EXCEPT !.pc = "stop"]]
                  [] StopPath = "sync" ->
                       SdFinal(r, [run4 EXCEPT !.outcomes = Append(@, "ok")], log4)
    ELSE /\ SdFinal(r, [run EXCEPT !.active_at_step4 = is_running], log)
         /\ UNCHANGED <<is_running, video_update_task, tasks, stops, stop_requests,
                        start_disabled, stop_disabled, status_label, src_base64,
                        escaped>>

\* Lines 325-353 after step 3, with `run` the run's record and `log` the
\* alert list so far.
SdStep4(r, run, log) ==
    IF StopNeeded
    THEN LET log4 == StopActiveLog(add_alert(log, "Stopping camera monitoring..."))
             run4 == [run EXCEPT !.stop_step = TRUE, !.active_at_step4 = is_running]
         IN  /\ StopActiveBranch(r)
             /\ CASE StopPath = "wait" ->
                       /\ alerts' = log4
                       /\ sd_ui' = [sd_ui EXCEPT !.status = "Stopping camera monitoring..."]
                       /\ runs' = [runs EXCEPT ![r] = [run4 EXCEPT !.pc = "stop"]]
                  [] StopPath = "sync" ->
                       SdFinal(r, [run4 EXCEPT !.outcomes = Append(@, "ok")], log4)
                  [] StopPath = "raise" ->
                       \* lines 333-338
                       SdFinal(r, [run4 EXCEPT !.outcomes = Append(@, "raised"),
                                               !.success = FALSE],
                               add_alert(log4, "Error stopping monitoring"))
    ELSE /\ SdFinal(r, [run EXCEPT !.active_at_step4 = is_running], log)
         /\ UNCHANGED <<is_running, video_update_task, tasks, stops, stop_requests,
                        start_disabled, stop_disabled, status_label, src_base64,
                        escaped>>

\* The remote call of step 1, 2 or 3 returns or raises; the run goes on to
\* its next await or to its end.
SdStepReturns(r, outcome, count) ==
    /\ runs[r].pc \in {"s1", "s2", "s3"}
    /\ (runs[r].pc = "s2" /\ outcome = "ok") \/ count = 0
    /\ LET pc == runs[r].pc
           log == add_alert(alerts, StepResultMsg(pc, outcome, count))
           run == [runs[r] EXCEPT !.success = StepSuccess(@, outcome),
                                  !.outcomes = Append(@, outcome),
                                  !.pending = {}]
           next == NextStep(pc, outcome)
       IN  IF next \in {"s2", "s3"}
           THEN /\ alerts' = add_alert(log, StepAnnounce(next))
                /\ sd_ui' = [sd_ui EXCEPT !.status = StepAnnounce(next)]
                /\ runs' = [runs EXCEPT ![r] =
                              [run EXCEPT !.pc = next,
                                          !.calls = Append(@, StepCall(next)),
                                          !.pending = {StepCall(next)}]]
                /\ Requests(StepCall(next))
                /\ UNCHANGED <<is_running, video_update_task, tasks, stops,
                               stop_requests, start_disabled, stop_disabled,
                               status_label, src_base64, escaped>>
           ELSE SdStep4(r, run, log) /\ NoRequest
    /\ UNCHANGED <<starts_in_flight, n_start, n_stop, n_fetch_failed,
                   fetched, n_frames, abandoned_fetches>>

\* The awaited polling task is done: a suspended stop_monitoring goes on from
\* line 151 to its end, and so does the run that called it.
StopResumes(s) ==
    /\ s \in stops
    /\ AwaitReturns(s.awaits)
    /\ stops' = stops \ {s}
    /\ StopFinish
    /\ IF s.caller = 0
       THEN /\ alerts' = add_alert(alerts, "Camera monitoring stopped.")
            /\ UNCHANGED <<runs, sd_ui>>
       ELSE SdFinal(s.caller,
                    [runs[s.caller] EXCEPT !.outcomes = Append(@, "ok")],
                    add_alert(alerts, "Camera monitoring stopped."))
    /\ UNCHANGED <<is_running, tasks, starts_in_flight, n_start, n_stop,
                   n_fetch_failed,
                   fetched, n_frames, abandoned_fetches, escaped>>
    /\ NoRequest

\* ------------------------------------------------------------------------
\* The system
\* ------------------------------------------------------------------------

\* main() up to its event loop (lines 36-56, 356-399).
Init ==
    /\ is_running = FALSE
    /\ video_update_task = None
    /\ tasks = [t \in TaskIds |-> NoTask]
    /\ starts_in_flight = 0
    /\ stops = {}
    /\ stop_requests = [new |-> 0, in_flight |-> 0]
    /\ runs = [r \in RunIds |-> IdleRun]
    /\ alerts = NoAlerts
    /\ start_disabled = FALSE
    /\ stop_disabled = TRUE
    /\ status_label = "System Ready"
    /\ src_base64 = NoFrame
    /\ sd_ui = [status |-> "WARNING", progress |-> FALSE, done_btn |-> FALSE,
                confirm_disabled |-> FALSE, cancel_disabled |-> FALSE]
    /\ n_start = 0
    /\ n_stop = 0
    /\ n_fetch_failed = 0
    /\ fetched = [o \in FetchOutcomes \ {"frame"} |-> 0]
    /\ n_frames = 0
    /\ abandoned_fetches = 0
    /\ escaped = {}
    /\ api_url_input = DEFAULT_REST_API_URL
    /\ requested_url = <<>>

\* The monitoring handlers and tasks.
Next ==
    \/ StartMonitoring
    \/ \E o \in StartOutcomes : StartReturns(o)
    \/ StopMonitoring
    \/ \E s \in stops : StopResumes(s)
    \/ StopRequestBegins
    \/ \E o \in StopRequestOutcomes : StopRequestReturns(o)
    \/ \E t \in TaskIds : TaskBegins(t)
    \/ \E t \in TaskIds, o \in FetchOutcomes : FetchReturns(t, o) /\ UNCHANGED n_frames
    \/ \E t \in TaskIds : CooldownEnds(t)
    \/ \E t \in TaskIds : SleepEnds(t)
    \/ \E t \in TaskIds : TaskCancelled(t)
    \/ AbandonedFetchReturns

Spec == Init /\ [][Next]_vars

\* The self-destruct run together with the monitoring handlers and tasks.
NextSD ==
    \/ n_start < MaxStartsSD /\ StartMonitoring
    \/ \E o \in StartOutcomes : StartReturns(o)
    \/ n_stop < MaxStopsSD /\ StopMonitoring
    \/ \E s \in stops : StopResumes(s)
    \/ StopRequestBegins
    \/ \E o \in StopRequestOutcomes : StopRequestReturns(o)
    \/ \E t \in TaskIds : TaskBegins(t)
    \/ \E t \in TaskIds, o \in FetchOutcomes : FetchReturns(t, o) /\ UNCHANGED n_frames
    \/ \E t \in TaskIds : CooldownEnds(t)
    \/ \E t \in TaskIds : SleepEnds(t)
    \/ \E t \in TaskIds : TaskCancelled(t)
    \/ AbandonedFetchReturns
    \/ \E r \in RunIds : SelfDestructInvoke(r)
    \/ \E r \in RunIds, o \in StepOutcomes, c \in DeletedCounts : SdStepReturns(r, o, c)

SpecSD == Init /\ [][NextSD]_vars

\* The event loop runs every coroutine that is ready: a cancelled polling
\* task takes its last step and a stop_monitoring whose awaited task is done
\* resumes. Every remote call of a run returns or raises: requests is given
\* a timeout at each call (60, 30 and 10 seconds, lines 231, 266, 301).
FairSD ==
    /\ \A r \in RunIds :
          WF_vars(\E o \in StepOutcomes, c \in DeletedCounts : SdStepReturns(r, o, c))
    /\ \A t \in TaskIds : WF_vars(TaskCancelled(t))
    /\ WF_vars(\E s \in stops : StopResumes(s))

SpecSDFair == Init /\ [][NextSD]_vars /\ FairSD

\* ---- the polling loop with its published frames counted ----

\* n_frames counts the assignments of line 81.
FrameCounted(outcome) ==
    IF outcome = "frame"
    THEN n_frames < MaxFrames /\ n_frames' = n_frames + 1
    ELSE UNCHANGED n_frames

NextPoll ==
    \/ n_start < MaxStartsPoll /\ StartMonitoring
    \/ \E o \in StartOutcomes : StartReturns(o)
    \/ n_stop < MaxStopsPoll /\ StopMonitoring
    \/ \E s \in stops : StopResumes(s)
    \/ StopRequestBegins
    \/ \E o \in StopRequestOutcomes : StopRequestReturns(o)
    \/ \E t \in TaskIds : TaskBegins(t)
    \/ \E t \in TaskIds, o \in FetchOutcomes : FetchReturns(t, o) /\ FrameCounted(o)
    \/ \E t \in TaskIds : CooldownEnds(t)
    \/ \E t \in TaskIds : SleepEnds(t)
    \/ \E t \in TaskIds : TaskCancelled(t)
    \/ AbandonedFetchReturns

SpecPoll == Init /\ [][NextPoll]_vars

\* ---- the handlers and tasks with the URL field edited between their steps ----

\* Every kind of remote call with the field edited at any point in between.
\* The calls succeed: what a call returns does not enter the URL of the next.
NextUrl ==
    \/ \E v \in FieldValues : UrlEdited(v)
    \/ n_start < MaxStartsUrl /\ StartMonitoring
    \/ StartReturns("ok")
    \/ n_stop < MaxStopsUrl /\ StopMonitoring
    \/ \E s \in stops : StopResumes(s)
    \/ StopRequestBegins
    \/ StopRequestReturns("ok")
    \/ \E t \in TaskIds : TaskBegins(t)
    \/ \E t \in TaskIds : FetchReturns(t, "frame") /\ UNCHANGED n_frames
    \/ \E t \in TaskIds : SleepEnds(t)
    \/ \E t \in TaskIds : TaskCancelled(t)
    \/ AbandonedFetchReturns
    \/ \E r \in RunIds : SelfDestructInvoke(r)
    \/ \E r \in RunIds : SdStepReturns(r, "ok", 0)

SpecUrl == Init /\ [][NextUrl]_vars

\* ---- the alert list on its own: appends up to and past its capacity ----

AlertAppended ==
    /\ alerts.appended < MaxAppends
    /\ alerts' = add_alert(alerts, "Video feed request timed out.")
    /\ UNCHANGED <<is_running, video_update_task, tasks, starts_in_flight, stops,
                   stop_requests, runs, start_disabled, stop_disabled,
                   status_label, src_base64, sd_ui, n_start, n_stop, n_fetch_failed,
                   fetched, n_frames, abandoned_fetches, escaped>>
    /\ NoRequest

SpecAlerts == Init /\ [][AlertAppended]_vars

\* ------------------------------------------------------------------------
\* Properties
\* ------------------------------------------------------------------------

HandleIsLive == IF video_update_task = None THEN FALSE ELSE Live(video_update_task)

\* A stop_monitoring has set is_running to false and not yet cleared the handle.
InStopTransition == stops # {}

\* C1: over all sequences of start_monitoring and stop_monitoring
\* invocations, overlapping ones included, at most one polling task is live.
C1_AtMostOneLiveTask == Cardinality(LiveTasks) <= 1

\* C2: outside the stop transition is_running is true if and only if
\* video_update_task refers to a live polling task.
C2_RunningIffHandleLive == ~InStopTransition => (is_running <=> HandleIsLive)

\* ---- perform_self_destruct ----

CallOrder == <<StepCall("s1"), StepCall("s2"), StepCall("s3")>>

\* The remote calls a run has issued when it is at `pc`.
CallsIssuedAt(pc) ==
    CASE pc = "idle" -> 0
      [] pc = "s1" -> 1
      [] pc = "s2" -> 2
      [] pc \in {"s3", "stop", "final"} -> 3

AllOk(outcomes) == \A i \in DOMAIN outcomes : outcomes[i] = "ok"

\* C3: every run issues bucket delete, record cleanup (days=0) and store-file
\* delete exactly once each, in that order, each only after the call before
\* it has returned or failed, whatever the outcomes; the stop step, when it
\* is executed, comes after all three.
C3_StepsInOrder ==
    \A r \in RunIds :
        LET run == runs[r]
        IN  /\ run.calls = SubSeq(CallOrder, 1, CallsIssuedAt(run.pc))
            /\ run.pending = IF run.pc \in {"s1", "s2", "s3"}
                             THEN {run.calls[Len(run.calls)]}
                             ELSE {}
            /\ Len(run.outcomes) >= Len(run.calls) - Cardinality(run.pending)
            /\ run.stop_step => run.calls = CallOrder /\ Len(run.outcomes) >= 3
            /\ run.pc = "final" => run.calls = CallOrder

C3_Witness ==
    \E r \in RunIds :
        /\ runs[r].pc = "final"
        /\ runs[r].stop_step
        /\ runs[r].outcomes[1] = "error"
        /\ runs[r].outcomes[2] = "appfail"

\* C4, as claimed: a run executes the stop step if and only if is_running
\* was true when the run was invoked.
C4_StopIffActiveAtInvocation ==
    \A r \in RunIds :
        runs[r].pc \in {"stop", "final"} =>
            (runs[r].stop_step <=> runs[r].active_at_invoke)

\* C4, amended: a run executes the stop step if and only if is_running is
\* true when the run reaches step 4, after its third remote call has returned
\* or failed.
C4_StopIffActiveAtStep4 ==
    \A r \in RunIds :
        runs[r].pc \in {"stop", "final"} =>
            (runs[r].stop_step <=> runs[r].active_at_step4)

C4_Witness ==
    \E r \in RunIds :
        /\ runs[r].pc = "final"
        /\ runs[r].stop_step
        /\ ~runs[r].active_at_invoke

\* C5: when a run ends, its success flag is false if and only if an executed
\* step failed, and the final status text and the summary alert say
\* 'completed successfully' when the flag is true and 'completed with some
\* errors' when it is false.
C5_CompositeSuccess ==
    [][\A r \in RunIds :
          (runs[r].pc # "final" /\ runs'[r].pc = "final") =>
              /\ runs'[r].success <=> AllOk(runs'[r].outcomes)
              /\ sd_ui'.status = (IF runs'[r].success THEN SuccessText ELSE ErrorsText)
              /\ LastMsg(alerts') = (IF runs'[r].success THEN SuccessText ELSE ErrorsText)
              /\ alerts'.appended > alerts.appended]_vars

C5_Witness ==
    \E r \in RunIds :
        /\ runs[r].pc = "final"
        /\ runs[r].outcomes = <<"ok", "appfail", "ok">>
        /\ ~runs[r].success
        /\ LastMsg(alerts) = ErrorsText

\* ---- add_alert ----

Min(a, b) == IF a < b THEN a ELSE b

\* C6: after every add_alert call the list holds at most 200 entries, and
\* they are the most recent entries, oldest first: the 201st append removes
\* exactly the oldest entry.
C6_AlertsAreTheMostRecent ==
    LET n == Len(alerts.controls)
    IN  /\ n = Min(alerts.appended, AlertCap)
        /\ \A i \in 1..n : alerts.controls[i].seq = alerts.appended - n + i

C6_Witness ==
    /\ alerts.appended = AlertCap + 1
    /\ alerts.controls[1].seq = 2

\* ---- stop_monitoring and start_monitoring ----

NotActiveNotice == "Camera monitoring not active. Cannot stop."

\* C7: stop_monitoring invoked while is_running is false appends the notice
\* and leaves is_running and video_update_task as they are: no task is
\* cancelled or spawned and no remote stop request is made.
C7_StopWhenInactive ==
    [][(n_stop' = n_stop + 1 /\ ~is_running) =>
          /\ alerts'.appended = alerts.appended + 1
          /\ LastMsg(alerts') = NotActiveNotice
          /\ UNCHANGED <<is_running, video_update_task, tasks, stops, stop_requests>>]_vars

C7_Witness ==
    /\ n_stop > 0
    /\ CountMsg(alerts, NotActiveNotice) > 0

\* C8: start_monitoring invoked while is_running is true changes nothing: no
\* remote start call, no second polling task, is_running, video_update_task
\* and the alert list as they were.
C8_StartWhenActive ==
    [][(n_start' = n_start + 1 /\ is_running) =>
          UNCHANGED <<is_running, video_update_task, tasks, starts_in_flight,
                      stops, stop_requests, runs, alerts, start_disabled,
                      stop_disabled, status_label, src_base64, sd_ui>>]_vars

C8_Witness ==
    /\ is_running
    /\ n_start > CountMsg(alerts, "Attempting to start monitoring...")

\* A start_monitoring ends in one of its failure branches.
StartFails ==
    /\ starts_in_flight' = starts_in_flight - 1
    /\ alerts'.appended = alerts.appended + 1
    /\ LastMsg(alerts') \in StartFailureMsgs

\* C9: whenever start_monitoring ends in a failure, is_running is false, the
\* invocation has spawned no polling task, it has appended exactly one alert
\* naming the cause, and start_button is enabled again.
C9_FailedStartLeavesInactive ==
    [][StartFails =>
          /\ ~is_running'
          /\ tasks' = tasks
          /\ ~start_disabled']_vars

\* A stop_monitoring is invoked, by the UI or by a self-destruct run, while
\* is_running is true.
StopInvokedActive ==
    /\ is_running
    /\ \/ n_stop' = n_stop + 1
       \/ \E r \in RunIds : ~runs[r].stop_step /\ runs'[r].stop_step

\* The handle refers to a task that an exception has ended.
HandleHasFailed ==
    IF video_update_task = None THEN FALSE
    ELSE tasks[video_update_task].pc = "failed"

StoppedAlerts(a) == CountMsg(a, "Camera monitoring stopped.")

\* C10: stop_monitoring invoked while is_running is true sets is_running to
\* false before it first suspends, cancels the polling task and waits until
\* that task has terminated, only then clears video_update_task, then
\* appends 'Camera monitoring stopped.', and then creates the detached task
\* of the remote stop command, which it does not wait for. (With no task to
\* wait for, the handle None or its task returned or cancelled, the same
\* steps follow at once; a handle whose task an exception ended is C23's.)
C10_StopOrder ==
    [][/\ StopInvokedActive => ~is_running'
       /\ (StopInvokedActive /\ HandleIsLive) =>
             /\ tasks'[video_update_task].must_cancel
             /\ \E s \in stops' : s \notin stops /\ s.awaits = video_update_task
             /\ video_update_task' = video_update_task
             /\ StoppedAlerts(alerts') = StoppedAlerts(alerts)
             /\ stop_requests' = stop_requests
       /\ (StopInvokedActive /\ ~HandleIsLive /\ ~HandleHasFailed) =>
             /\ stops' = stops
             /\ video_update_task' = None
             /\ StoppedAlerts(alerts') = StoppedAlerts(alerts) + 1
             /\ stop_requests' = [stop_requests EXCEPT !.new = @ + 1]
       /\ \A s \in stops :
             s \notin stops' =>
                 /\ ~Live(s.awaits)
                 /\ tasks[s.awaits].pc = "cancelled"
                 /\ video_update_task' = None
                 /\ StoppedAlerts(alerts') = StoppedAlerts(alerts) + 1
                 /\ stop_requests' = [stop_requests EXCEPT !.new = @ + 1]
                 /\ stops' = stops \ {s}
       /\ stop_requests.new + stop_requests.in_flight
             < stop_requests'.new + stop_requests'.in_flight =>
                 StoppedAlerts(alerts') = StoppedAlerts(alerts) + 1]_vars

C10_Witness ==
    /\ \E t \in TaskIds : tasks[t].pc = "cancelled"
    /\ stops = {}
    /\ ~is_running
    /\ video_update_task = None
    /\ LastMsg(alerts) = "Camera monitoring stopped."
    /\ stop_requests.in_flight = 1

\* ---- the polling task and the stop transition ----

StartedMsg == "Camera monitoring started successfully."
StoppedMsg == "Camera monitoring stopped."

\* The last message of the alert list that is in `msgs`, "" when there is none.
LastOf(a, msgs) ==
    LET at == {i \in 1..Len(a.controls) : a.controls[i].msg \in msgs}
    IN  IF at = {} THEN ""
        ELSE a.controls[CHOOSE i \in at : \A j \in at : j <= i].msg

\* A stop_monitoring invoked on an active system has returned (line 159 is
\* in its last step) and no start_monitoring has succeeded since (line 119).
StopHasReturned == LastOf(alerts, {StartedMsg, StoppedMsg}) = StoppedMsg

\* C11: after a stop_monitoring invoked on an active system has returned, no
\* polling task publishes a frame until a later start_monitoring succeeds:
\* video_image.src_base64 stays as the stop left it (None).
C11_NoFrameAfterStop == StopHasReturned => src_base64 = NoFrame

\* Task t receives the outcome of its fetch in this step.
FetchReturned(t) ==
    /\ tasks[t].pc = "fetch"
    /\ ~tasks[t].must_cancel
    /\ tasks'[t] # tasks[t]

\* C12: while monitoring is active no outcome of a frame fetch ends the
\* polling task: the task that received the outcome is live afterwards, and
\* an outcome other than a frame has appended an alert.
C12_FetchOutcomeKeepsTaskLive ==
    [][\A t \in TaskIds :
          (is_running /\ FetchReturned(t)) =>
              /\ tasks'[t].pc \in LivePcs
              /\ fetched' # fetched => alerts'.appended = alerts.appended + 1]_vars

\* The GET /camera calls that have been issued and have not returned.
FetchesInFlight ==
    Cardinality({t \in TaskIds : tasks[t].pc = "fetch"}) + abandoned_fetches

\* C13: once stop_monitoring has cancelled a polling task, the task's only
\* step is its termination, and that step issues no frame fetch, publishes
\* no frame and appends no alert, whether the task was cancelled before its
\* first step, during a fetch, during a cooldown or during the refresh sleep.
C13_CancelledTaskDoesNothing ==
    [][\A t \in TaskIds :
          tasks[t].must_cancel =>
              /\ tasks'[t].pc \in {tasks[t].pc, "cancelled"}
              /\ tasks'[t] # tasks[t] =>
                    /\ alerts' = alerts
                    /\ src_base64' = src_base64
                    /\ fetched' = fetched
                    /\ FetchesInFlight' = FetchesInFlight]_vars

\* A task cancelled during its fetch has terminated and the stop that
\* cancelled it has returned, with no frame on display.
C13_Witness ==
    /\ \E t \in TaskIds : tasks[t].pc = "cancelled" /\ tasks[t].must_cancel
    /\ abandoned_fetches > 0
    /\ StopHasReturned
    /\ src_base64 = NoFrame

\* ---- the detached remote stop call ----

\* A step of a send_stop_request task: its POST is issued, or returns or raises.
StopRequestStep ==
    /\ stop_requests' # stop_requests
    /\ stop_requests'.new <= stop_requests.new

\* A stop_monitoring invoked on an active system returns.
StopReturns == StoppedAlerts(alerts') = StoppedAlerts(alerts) + 1

\* C14: whatever the outcome of the detached remote stop call, its steps
\* append nothing to the alert list and change neither is_running nor
\* video_update_task nor any UI control (nor any task or handler); and
\* stop_monitoring returns without waiting for it: when it returns, the call
\* it has just created has not been issued, and no call has completed in
\* that step.
C14_DetachedStopCall ==
    [][/\ StopRequestStep =>
             UNCHANGED <<alerts, is_running, video_update_task, tasks, stops,
                         starts_in_flight, runs, start_disabled, stop_disabled,
                         status_label, src_base64, sd_ui, escaped>>
       /\ StopReturns =>
             /\ stop_requests'.new = stop_requests.new + 1
             /\ stop_requests'.in_flight = stop_requests.in_flight]_vars

\* The one remote stop call of a returned stop_monitoring has come back, and
\* the last alert is still the stop's own.
C14_Witness ==
    /\ StoppedAlerts(alerts) = 1
    /\ stop_requests = [new |-> 0, in_flight |-> 0]
    /\ LastMsg(alerts) = StoppedMsg
    /\ ~is_running
    /\ video_update_task = None

\* ---- exceptions ----

\* C15: no invocation of start_monitoring, stop_monitoring or
\* perform_self_destruct and no polling task ends with an exception that
\* leaves it: every failure is caught inside the component.
C15_NoExceptionEscapes == escaped = {}

\* ---- the cooldown ----

\* C16: a fetch that ends in a timeout, in a transport error or in a
\* well-formed response without success flag or frame is followed by the
\* cooldown wait, and only a fetch that publishes a frame goes straight to
\* the refresh sleep.
C16_CooldownAfterEveryFailure ==
    [][\A t \in TaskIds :
          FetchReturned(t) =>
              /\ \A o \in {"timeout", "reqerror", "noframe"} :
                     fetched'[o] = fetched[o] + 1 => tasks'[t].pc = "cooldown"
              /\ fetched' = fetched => tasks'[t].pc = "sleep"]_vars

\* ---- frame fetches in flight ----

\* C17: at any time at most one GET /camera request is in flight, the
\* requests still running in a worker thread after their polling task was
\* cancelled included.
C17_AtMostOneFetchInFlight == FetchesInFlight <= 1

\* ---- scenarios ----

TimedOutMsg == "Video feed request timed out."

\* One start_monitoring, which succeeded; three fetches of its polling task
\* published a frame and one timed out, no other fetch came back; then
\* stop_monitoring was invoked once, on the active system, and has returned.
C18_Scenario ==
    /\ n_start = 1
    /\ starts_in_flight = 0
    /\ tasks[1].pc # "none"
    /\ n_frames = 3
    /\ fetched = [o \in FetchOutcomes \ {"frame"} |->
                    IF o = "timeout" THEN 1 ELSE 0]
    /\ n_stop = 1
    /\ CountMsg(alerts, "Attempting to stop monitoring...") = 1
    /\ stops = {}

\* C18: at the end of the scenario (start succeeds, three frame fetches
\* succeed, one times out, stop is called) the alert list holds exactly one
\* 'Camera monitoring started successfully.', exactly one 'Video feed request
\* timed out.' and exactly one 'Camera monitoring stopped.', the handle
\* video_update_task is None and is_running is false.
C18_StartFetchTimeoutStop ==
    C18_Scenario =>
        /\ CountMsg(alerts, StartedMsg) = 1
        /\ CountMsg(alerts, TimedOutMsg) = 1
        /\ CountMsg(alerts, StoppedMsg) = 1
        /\ video_update_task = None
        /\ ~is_running

C18_Witness ==
    /\ C18_Scenario
    /\ tasks[1].pc = "cancelled"
    /\ LastMsg(alerts) = StoppedMsg

StepPcs == {"s1", "s2", "s3"}

\* The lines a run appends for the result of a step: success and failure.
SuccessLines == {StepResultMsg(pc, "ok", c) : pc \in StepPcs, c \in DeletedCounts}
FailureLines == {StepResultMsg(pc, o, 0) : pc \in StepPcs, o \in {"appfail", "error"}}
                    \cup {"Error stopping monitoring"}

CountIn(a, msgs) == Cardinality({i \in 1..Len(a.controls) : a.controls[i].msg \in msgs})

\* Run r is the only run and has ended; monitoring was inactive when it was
\* invoked and when it reached step 4; its bucket delete failed, its cleanup
\* succeeded with deleted_count = 5 and its store-file delete succeeded.
C19_Scenario(r) ==
    /\ runs[r].pc = "final"
    /\ \A q \in RunIds \ {r} : runs[q].pc = "idle"
    /\ ~runs[r].active_at_invoke
    /\ ~runs[r].active_at_step4
    /\ runs[r].outcomes[1] \in {"appfail", "error"}
    /\ runs[r].outcomes[2] = "ok"
    /\ CountMsg(alerts, CleanedMsg(5)) = 1
    /\ runs[r].outcomes[3] = "ok"

\* C19: in the scenario (monitoring inactive, bucket delete fails, cleanup
\* succeeds with deleted_count=5, store-file delete succeeds) exactly three
\* steps are executed, the composite success is false, the alert list holds
\* exactly one failure line and two success lines of the run, and no
\* stop-monitoring step is logged.
C19_FailedBucketDelete ==
    \A r \in RunIds :
        C19_Scenario(r) =>
            /\ Len(runs[r].calls) = 3
            /\ Len(runs[r].outcomes) = 3
            /\ ~runs[r].success
            /\ CountIn(alerts, FailureLines) = 1
            /\ CountIn(alerts, SuccessLines) = 2
            /\ ~runs[r].stop_step
            /\ CountMsg(alerts, "Stopping camera monitoring...") = 0

C19_Witness ==
    \E r \in RunIds :
        /\ C19_Scenario(r)
        /\ runs[r].outcomes = <<"appfail", "ok", "ok">>
        /\ LastMsg(alerts) = ErrorsText
        /\ n_start = 0

\* ---- termination of perform_self_destruct ----

\* The final state of run r as the page shows it: the summary is in the
\* alert list, the progress indicator is hidden and the 'Return to Main
\* Screen' button is visible.
RunEnded(r) ==
    /\ runs[r].pc = "final"
    /\ CountIn(alerts, {SuccessText, ErrorsText}) > 0
    /\ ~sd_ui.progress
    /\ sd_ui.done_btn

\* C20: every run of perform_self_destruct that has been invoked eventually
\* reaches its final state, whatever the outcomes of its steps, the stop
\* step included, given that every remote call returns or raises.
C20_RunReachesFinalState ==
    \A r \in RunIds : (runs[r].pc # "idle") ~> RunEnded(r)

\* A run has ended after a failed step and a stop step whose await raised.
C20_Witness ==
    \E r \in RunIds :
        /\ RunEnded(r)
        /\ Len(runs[r].outcomes) = 4
        /\ runs[r].outcomes[1] = "error"
        /\ runs[r].outcomes[4] = "raised"
        /\ LastMsg(alerts) = ErrorsText

\* ---- is_running ----

\* C21: is_running changes from false to true only in the step in which a
\* start_monitoring resumes from a remote start call that reported success
\* (the step that appends the 'started' alert), and that step spawns exactly
\* one polling task and stores it in video_update_task.
C21_RunningSetOnlyBySuccessfulStart ==
    [][(~is_running /\ is_running') =>
          /\ starts_in_flight' = starts_in_flight - 1
          /\ alerts'.appended = alerts.appended + 1
          /\ LastMsg(alerts') = StartedMsg
          /\ \E t \in TaskIds :
                /\ tasks[t].pc = "none"
                /\ tasks'[t].pc = "new"
                /\ video_update_task' = t
                /\ \A u \in TaskIds \ {t} : tasks'[u] = tasks[u]]_vars

\* A start has just succeeded on an inactive system: is_running is true and
\* the handle refers to the task it spawned, which has not run yet.
C21_Witness ==
    /\ is_running
    /\ LastMsg(alerts) = StartedMsg
    /\ video_update_task # None
    /\ HandleIsLive
    /\ Cardinality({t \in TaskIds : tasks[t].pc # "none"}) = 1

\* ---- stop_monitoring on a polling task that has already completed ----

\* C23: a stop_monitoring invoked while is_running is true and the task of
\* the handle has already completed (returned, was cancelled, or was ended
\* by an exception) finishes the whole stop sequence in that step: the
\* handle is None, 'Camera monitoring stopped.' is appended, start_button is
\* enabled and the task of the remote stop command is created.
C23_StopOnCompletedTask ==
    [][(StopInvokedActive /\ video_update_task # None /\ ~HandleIsLive) =>
          /\ ~is_running'
          /\ video_update_task' = None
          /\ StoppedAlerts(alerts') = StoppedAlerts(alerts) + 1
          /\ ~start_disabled'
          /\ stop_requests' = [stop_requests EXCEPT !.new = @ + 1]]_vars

\* ---- a start_monitoring that overlaps a stop_monitoring ----

\* A stop_monitoring invoked on an active system has not yet issued its
\* remote 'stop' command: it is suspended at line 150, or its
\* send_stop_request task has not run yet.
StopCommandPending == stops # {} \/ stop_requests.new > 0

\* C24: the 'stop' command of a stop_monitoring is issued before the 'start'
\* command of a start_monitoring invoked later: no start_monitoring issues
\* its remote call while an earlier stop_monitoring has yet to issue its own.
C24_StopIssuedBeforeLaterStart ==
    [][starts_in_flight' = starts_in_flight + 1 => ~StopCommandPending]_vars

\* C25: while a remote start call is in flight, start_button is disabled.
C25_StartDisabledWhileStartInFlight == starts_in_flight > 0 => start_disabled

\* C26: at every point where control is at the event loop, stop_button is
\* enabled exactly when is_running is true.
C26_StopEnabledIffRunning == ~stop_disabled <=> is_running

\* ---- monitoring after perform_self_destruct ----

StartAttemptMsg == "Attempting to start monitoring..."

\* No start_monitoring has issued a remote start call since the run of
\* perform_self_destruct began (line 104 against the run's first alert).
NoStartSinceRunBegan ==
    LastOf(alerts, {StartAttemptMsg, StepAnnounce("s1")}) = StepAnnounce("s1")

\* C27: once a run of perform_self_destruct has reached its final state,
\* monitoring is not active (is_running is false and no polling task is
\* live), given that no start_monitoring was invoked after the run began;
\* a start whose remote call was in flight when the run began is included.
C27_InactiveAfterSelfDestruct ==
    \A r \in RunIds :
        (RunEnded(r) /\ NoStartSinceRunBegan) =>
            (~is_running /\ LiveTasks = {})

\* ---- the URL of a remote call ----

\* The path of the remote call that this step issues, "" when it issues none:
\* a polling task reaches its fetch, a start_monitoring its POST, a
\* send_stop_request its POST, a run of perform_self_destruct its next step.
IssuedPath ==
    IF \/ \E t \in TaskIds : tasks[t].pc # "fetch" /\ tasks'[t].pc = "fetch"
       \/ starts_in_flight' = starts_in_flight + 1
       \/ stop_requests'.in_flight = stop_requests.in_flight + 1
    THEN "/camera"
    ELSE IF \E r \in RunIds : Len(runs'[r].calls) = Len(runs[r].calls) + 1
    THEN LET r == CHOOSE q \in RunIds : Len(runs'[q].calls) = Len(runs[q].calls) + 1
         IN  runs'[r].calls[Len(runs'[r].calls)]
    ELSE ""

\* `base` is `value` without the whitespace around it and without the
\* slashes at the end of what is left.
TrimmedTo(value, base) ==
    \E i \in 1..Len(value), m \in 1..Len(value) :
        /\ i <= m
        /\ \A k \in 1..(i - 1) : value[k] \in Whitespace
        /\ \A k \in (m + 1)..Len(value) : value[k] \in Whitespace
        /\ value[i] \notin Whitespace
        /\ value[m] \notin Whitespace
        /\ \E j \in (i - 1)..m :
              /\ base = SubSeq(value, i, j)
              /\ \A k \in (j + 1)..m : value[k] = "/"
              /\ j >= i => value[j] # "/"

\* The base URL that a call issued now must use: the default for a blank or
\* whitespace-only field, the trimmed value otherwise, with or without a scheme.
BaseUrlNow(base) ==
    IF \A k \in 1..Len(api_url_input) : api_url_input[k] \in Whitespace
    THEN base = DEFAULT_REST_API_URL
    ELSE TrimmedTo(api_url_input, base)

\* C22: every remote call (frame fetch, start, stop, each self-destruct step)
\* is sent to a URL built from the value the base-URL field has in the step
\* that issues the call: the default http://localhost:5000 when the field is
\* blank or whitespace only, the trimmed value otherwise, also when it has no
\* http:// or https:// prefix, followed by the path of the call. A step that
\* issues no call sends nothing.
C22_UrlFromFieldAtIssue ==
    [][IF IssuedPath = ""
       THEN requested_url' = requested_url
       ELSE /\ requested_url' # <<>>
            /\ requested_url'[Len(requested_url')] = IssuedPath
            /\ BaseUrlNow(SubSeq(requested_url', 1, Len(requested_url') - 1))]_vars

\* The field was edited after an earlier call to a value without a scheme,
\* padded with whitespace and ending in slashes, and a polling task's fetch
\* issued since then went to the trimmed value.
C22_Witness ==
    /\ api_url_input = <<" ", "c", "a", "m", "/", "/", "\t">>
    /\ requested_url = <<"c", "a", "m", "/camera">>
    /\ \E t \in TaskIds : tasks[t].pc = "fetch"

====
